---- MODULE Spec2Model ----
(***************************************************************************)
(* x-cli: the scheduled-post store (scheduled_tweets.json), the scheduler *)
(* daemon, the schedule-time parser and the API client's status handling. *)
(*                                                                         *)
(* Instants are Unix seconds.  A time.Time is a record [sec, off]: the     *)
(* instant and the UTC offset (seconds) of its location.  Before/Equal     *)
(* compare instants only, as in Go.                                        *)
(***************************************************************************)
EXTENDS Integers, Sequences, FiniteSets, TLC

VARIABLES
    tz,         \* UTC offset of time.Local for this process, seconds east
    clock,      \* the reading time.Now() returns, Unix seconds
    doc,        \* scheduled_tweets.json: [st, tweets]
    posted,     \* remote side: per created post, "never", "once" or "again" created
    nextUid,    \* number of posts created so far through the CLI
    cancelled,  \* posts whose cancel command returned success
    overlaps,   \* operations started while the other process was inside one
    dpc,        \* daemon: position in runSchedulerDaemon
    dtweets,    \* daemon: tweets (loaded at the start of the tick)
    didx,       \* daemon: index of the range loop over tweets
    dremaining, \* daemon: remainingTweets
    dnow,       \* daemon: now, read once per tick
    dmedia,     \* daemon: mediaIDs of the post being delivered
    dfailed,    \* daemon: indices of tweets whose upload or post returned an error
    cpc,        \* CLI command: position
    ctweets,    \* CLI command: tweets it loaded
    carg,       \* CLI command: the id to cancel and what its loop dropped; whether
                \* the load of a create failed; mediaIDs of an immediate post
    pin,        \* parser harness: the --schedule string given
    pout,       \* parser harness: what parseScheduleTime returned
    http,       \* client harness: the last HTTP exchange and what the call returned
    sig         \* harness: last call of encodeValues, [called, in, pairs, str]

vars == <<tz, clock, doc, posted, nextUid, cancelled, overlaps, dpc, dtweets, didx,
          dremaining, dnow, dmedia, dfailed, cpc, ctweets, carg, pin, pout, http, sig>>

----------------------------------------------------------------------------
(* Calendar arithmetic of package time (proleptic Gregorian).              *)

\* days from 1970-01-01 to y-m-d; linear in d, so an overflowing day
\* normalises into the next month as time.Date does
DaysFromCivil(y, m, d) ==
    LET yy  == IF m <= 2 THEN y - 1 ELSE y
        era == yy \div 400
        yoe == yy - era * 400
        mp  == IF m > 2 THEN m - 3 ELSE m + 9
        doy == (153 * mp + 2) \div 5 + d - 1
        doe == yoe * 365 + yoe \div 4 - yoe \div 100 + doy
    IN  era * 146097 + doe - 719468

\* the civil date [y, mo, d] of a day number
CivilFromDays(z0) ==
    LET z   == z0 + 719468
        era == z \div 146097
        doe == z - era * 146097
        yoe == (doe - doe \div 1460 + doe \div 36524 - doe \div 146096) \div 365
        doy == doe - (365 * yoe + yoe \div 4 - yoe \div 100)
        mp  == (5 * doy + 2) \div 153
        d   == doy - (153 * mp + 2) \div 5 + 1
        m   == IF mp < 10 THEN mp + 3 ELSE mp - 9
    IN  [y |-> yoe + era * 400 + (IF m <= 2 THEN 1 ELSE 0), mo |-> m, d |-> d]

isLeap(y) == y % 4 = 0 /\ (y % 100 # 0 \/ y % 400 = 0)

daysIn(m, y) ==
    IF m = 2 THEN (IF isLeap(y) THEN 29 ELSE 28)
    ELSE IF m \in {4, 6, 9, 11} THEN 30 ELSE 31

\* time.Date(y, mo, d, h, mi, s, 0, loc) for a fixed-offset location
Date(y, mo, d, h, mi, s, off) ==
    [sec |-> DaysFromCivil(y, mo, d) * 86400 + h * 3600 + mi * 60 + s - off,
     off |-> off]

\* t.Year(), t.Month(), t.Day() in t's own location
DateOf(t) == CivilFromDays((t.sec + t.off) \div 86400)

\* time.Now(): the clock reading, in time.Local
Now == [sec |-> clock, off |-> tz]

Before(t, u) == t.sec < u.sec
Equal(t, u)  == t.sec = u.sec

----------------------------------------------------------------------------
(* parseScheduleTime.  A --schedule string is modelled by the layout it    *)
(* has and the numbers written in it: [fmt, y, mo, d, h, mi, s], with      *)
(* fmt "ymdhms" = 2006-01-02 15:04:05, "ymdhm" = 2006-01-02 15:04,         *)
(* "mdhm" = 01-02 15:04, "hm" = 15:04, "bad" = any other text.  A string   *)
(* matches at most one of the four layouts.                                *)

formats == <<"ymdhms", "ymdhm", "mdhm", "hm">>

\* time.Parse(format, s): the fields absent from the layout are year 0,
\* January 1, 00:00:00; the result is in UTC; ranges are validated
timeParse(format, in) ==
    LET y  == IF format \in {"ymdhms", "ymdhm"} THEN in.y ELSE 0
        mo == IF format = "hm" THEN 1 ELSE in.mo
        d  == IF format = "hm" THEN 1 ELSE in.d
        s  == IF format = "ymdhms" THEN in.s ELSE 0
        ok == /\ in.fmt = format
              /\ mo \in 1..12 /\ d \in 1..daysIn(mo, y)
              /\ in.h \in 0..23 /\ in.mi \in 0..59 /\ s \in 0..59
    IN  [err |-> ~ok, y |-> y, mo |-> mo, d |-> d, h |-> in.h, mi |-> in.mi,
         s |-> s]

zeroTime == [sec |-> 0, off |-> 0]

RECURSIVE tryFormats(_, _, _)
tryFormats(i, in, now) ==
    IF i > Len(formats) THEN [err |-> TRUE, t |-> zeroTime]
    ELSE LET format == formats[i]
             t      == timeParse(format, in)
         IN  IF t.err THEN tryFormats(i + 1, in, now)
             ELSE IF format = "hm"
                  THEN [err |-> FALSE,
                        t |-> Date(DateOf(now).y, DateOf(now).mo, DateOf(now).d,
                                   t.h, t.mi, 0, now.off)]
             ELSE IF format = "mdhm"
                  THEN [err |-> FALSE,
                        t |-> Date(DateOf(now).y, t.mo, t.d, t.h, t.mi, 0, now.off)]
             ELSE [err |-> FALSE, t |-> Date(t.y, t.mo, t.d, t.h, t.mi, t.s, 0)]

parseScheduleTime(scheduleAt, now) == tryFormats(1, scheduleAt, now)

----------------------------------------------------------------------------
(* API client: postTweet, signedPost, uploadMedia.  An HTTP exchange is    *)
(* [neterr, status, body]: client.Do failed (neterr), or answered with a   *)
(* status code and a body of one of the shapes uploadMedia tells apart.    *)

StatusErrorFrom == 300

\* resp.StatusCode >= 300
statusIsError(status) == status >= StatusErrorFrom

\* postTweet after the request is built: one client.Do, then the status check
postTweet(resp) ==
    IF resp.neterr THEN [err |-> "posting tweet", requests |-> 1]
    ELSE IF statusIsError(resp.status)
         THEN [err |-> "twitter API error", requests |-> 1]
    ELSE [err |-> "", requests |-> 1]

signedPost(resp) ==
    IF resp.neterr THEN [err |-> "performing request", body |-> "", requests |-> 1]
    ELSE IF statusIsError(resp.status)
         THEN [err |-> "twitter API error", body |-> "", requests |-> 1]
    ELSE [err |-> "", body |-> resp.body, requests |-> 1]

\* body shapes: "media_id" = JSON with a non-empty media_id_string,
\* "error" = JSON with error.message, "errors" = JSON with errors[0].message,
\* "json" = other JSON, "text" = not JSON
uploadMedia(readable, resp) ==
    IF ~readable THEN [err |-> "reading media", id |-> "", requests |-> 0]
    ELSE LET r == signedPost(resp)
         IN  IF r.err # "" THEN [err |-> "uploading media", id |-> "",
                                 requests |-> r.requests]
             ELSE IF r.body = "text"
                  THEN [err |-> "decoding media upload response", id |-> "",
                        requests |-> r.requests]
             ELSE IF r.body # "media_id"
                  THEN [err |-> "media upload failed", id |-> "",
                        requests |-> r.requests]
             ELSE [err |-> "", id |-> "mid", requests |-> r.requests]

\* the payload postTweet marshals: the media block is present only when there
\* are media ids
tweetPayload(text, mediaIDs) ==
    [Text |-> text, Media |-> IF Len(mediaIDs) > 0 THEN <<[MediaIDs |-> mediaIDs]>> ELSE <<>>]

\* a caller that forgets the id uploadMedia returned
mediaIDsDropped(mediaIDs, id) == mediaIDs

\* mediaIDs = append(mediaIDs, id)
appendMediaID(mediaIDs, id) == Append(mediaIDs, id)

\* how often a post's tweet was created, after one more creation
Again(n) == IF n = "never" THEN "once" ELSE "again"

\* the remote API creates the tweet exactly when it answers 2xx
Creates(resp) == ~resp.neterr /\ resp.status \in 200..299

----------------------------------------------------------------------------
(* The schedule document and the store functions.                          *)

\* fmt.Sprintf("tweet_%d", time.Now().UnixNano())
generateTweetID == <<"tweet", clock>>

AbsentDoc == [st |-> "absent", tweets |-> <<>>]

\* os.ReadFile + json.Unmarshal: absent is the empty store, an unreadable or
\* unparsable document is an error
loadScheduledTweets ==
    IF doc.st = "absent" THEN [err |-> FALSE, tweets |-> <<>>]
    ELSE IF doc.st = "corrupt" THEN [err |-> TRUE, tweets |-> <<>>]
    ELSE [err |-> FALSE, tweets |-> doc.tweets]

\* os.WriteFile(name, data, 0644): "ok" replaces the content; "open" fails
\* before truncating; "partial" fails after O_TRUNC, leaving a document that
\* no longer parses
WriteOutcomes == {"ok", "open", "partial"}

saveScheduledTweets(tweets, outcome) ==
    /\ doc' = IF outcome = "ok" THEN [st |-> "ok", tweets |-> tweets]
              ELSE IF outcome = "partial" THEN [st |-> "corrupt", tweets |-> <<>>]
              ELSE doc

\* the entries of a sequence that satisfy Keep, in order
RECURSIVE SelectIdx(_, _, _)
SelectIdx(s, i, keep) ==
    IF i > Len(s) THEN <<>>
    ELSE (IF i \in keep THEN <<s[i]>> ELSE <<>>) \o SelectIdx(s, i + 1, keep)

Uids(s) == {s[i].uid : i \in 1..Len(s)}
----------------------------------------------------------------------------
(* Bounds and input sets.                                                  *)

MaxTicks == 1       \* clock advances explored
MaxPosts == 2       \* create commands that build a tweet
MaxOverlaps == 1    \* commands started inside a daemon tick, or ticks started inside a command

Zones == {0, 3600}

\* the wall clock reads 2024-06-01 10:00:00 local when the model starts
StartClock(off) == Date(2024, 6, 1, 10, 0, 0, off).sec

Sched(f, y, mo, d, h, mi, s) ==
    [fmt |-> f, y |-> y, mo |-> mo, d |-> d, h |-> h, mi |-> mi, s |-> s]

NoInput == Sched("none", 0, 0, 0, 0, 0, 0)

\* the create commands run: --schedule string and --image path
CreateInputs ==
    { <<Sched("hm", 0, 0, 0, 9, 0, 0), "">>,             \* "09:00"
      <<Sched("hm", 0, 0, 0, 11, 0, 0), "a.png">>,       \* "11:00", with an image
      <<Sched("ymdhm", 2024, 6, 1, 10, 0, 0), "">>,      \* "2024-06-01 10:00"
      <<Sched("bad", 0, 0, 0, 0, 0, 0), "">> }           \* "tomorrow"

Resp(neterr, status, body) == [neterr |-> neterr, status |-> status, body |-> body]

\* what the remote API answers to the daemon's tweet-create requests
DaemonResponses ==
    { Resp(TRUE, 0, ""), Resp(FALSE, 201, "json"), Resp(FALSE, 503, "text") }

\* the daemon's uploads: whether the image file can be read, and the answer
DaemonUploads ==
    { <<FALSE, Resp(FALSE, 200, "media_id")>>, <<TRUE, Resp(FALSE, 200, "media_id")>>,
      <<TRUE, Resp(FALSE, 200, "error")>> }

UIDs == 1..MaxPosts

----------------------------------------------------------------------------
(* State after construction: no document, daemon at the top of its loop,   *)
(* no CLI command running.                                                 *)

NoArg    == [id |-> <<>>, removed |-> {}, loadFailed |-> FALSE, media |-> <<>>]
NoHttp   == [op |-> "", resp |-> Resp(FALSE, 0, ""), readable |-> TRUE,
             err |-> "", requests |-> 0]
NoParse  == [err |-> FALSE, t |-> zeroTime]
NoSig    == [called |-> FALSE, in |-> <<>>, pairs |-> <<>>, str |-> <<>>]

InitIn(zones) ==
    /\ tz \in zones
    /\ clock = StartClock(tz)
    /\ doc = AbsentDoc
    /\ posted = [u \in UIDs |-> "never"]
    /\ nextUid = 0
    /\ cancelled = {}
    /\ overlaps = 0
    /\ dpc = "sleep" /\ dtweets = <<>> /\ didx = 0 /\ dremaining = <<>>
    /\ dnow = zeroTime /\ dmedia = <<>> /\ dfailed = {}
    /\ cpc = "idle" /\ ctweets = <<>> /\ carg = NoArg
    /\ pin = NoInput /\ pout = NoParse /\ http = NoHttp /\ sig = NoSig

Init == InitIn(Zones)

dvars  == <<dpc, dtweets, didx, dremaining, dnow, dmedia, dfailed>>
cvars  == <<cpc, ctweets, carg>>
hvars  == <<pin, pout, http, sig>>

----------------------------------------------------------------------------
(* The clock.                                                              *)

\* time passes (one hour per step)
Tick ==
    /\ clock < StartClock(tz) + MaxTicks * 3600
    /\ clock' = clock + 3600
    /\ UNCHANGED <<tz, doc, posted, nextUid, cancelled, overlaps, dvars, cvars, hvars>>

----------------------------------------------------------------------------
(* CLI commands.  One command runs at a time; each is split where it       *)
(* reads and where it writes the document.                                 *)

\* a CLI command starts; it overlaps a daemon tick when the daemon is between
\* its load and its sleep
CliStart ==
    /\ cpc = "idle"
    /\ dpc # "sleep" => overlaps < MaxOverlaps
    /\ overlaps' = IF dpc # "sleep" THEN overlaps + 1 ELSE overlaps

\* a daemon tick starts; it overlaps a CLI command when one is between its
\* load and its save
TickStart ==
    /\ dpc = "sleep"
    /\ cpc # "idle" => overlaps < MaxOverlaps
    /\ overlaps' = IF cpc # "idle" THEN overlaps + 1 ELSE overlaps

\* the validation with its comparison the wrong way round
tooEarlyReversed(scheduleTime, now) == Before(now, scheduleTime)

\* scheduleTime.Before(time.Now())
tooEarly(scheduleTime, now) == Before(scheduleTime, now)

\* what handleScheduledTweet returns before it reaches saveScheduledTweet:
\* an error, or "" when it goes on to save
handleError(scheduleAt) ==
    LET p == parseScheduleTime(scheduleAt, Now)
    IN  IF p.err THEN "invalid schedule time"
        ELSE IF tooEarly(p.t, Now) THEN "schedule time must be in the future"
        ELSE ""

\* handleScheduledTweet up to and including saveScheduledTweet's load + append
handleScheduledTweet(scheduleAt, image) ==
    /\ CliStart
    /\ IF handleError(scheduleAt) # ""
       THEN UNCHANGED <<cpc, ctweets, carg, nextUid>>
       ELSE /\ nextUid < MaxPosts
            /\ LET tweet == [Text |-> "t", Image |-> image,
                             ScheduleTime |-> parseScheduleTime(scheduleAt, Now).t,
                             ID |-> generateTweetID, uid |-> nextUid + 1]
                   l     == loadScheduledTweets
               IN  /\ ctweets' = Append(IF l.err THEN <<>> ELSE l.tweets, tweet)
                   /\ carg' = [NoArg EXCEPT !.loadFailed = l.err]
            /\ nextUid' = nextUid + 1
            /\ cpc' = "create_save"
    /\ UNCHANGED <<tz, clock, doc, posted, cancelled, dvars, hvars>>

\* saveScheduledTweet's saveScheduledTweets and the return to handleScheduledTweet
saveScheduledTweet(outcome) ==
    /\ cpc = "create_save"
    /\ saveScheduledTweets(ctweets, outcome)
    /\ cpc' = "idle" /\ ctweets' = <<>> /\ carg' = NoArg
    /\ UNCHANGED <<tz, clock, posted, nextUid, cancelled, overlaps, dvars, hvars>>

\* what listScheduledTweets returns
listError == IF loadScheduledTweets.err THEN "loading scheduled tweets" ELSE ""

\* listScheduledTweets: load and print
listScheduledTweets ==
    /\ CliStart
    /\ UNCHANGED <<tz, clock, doc, posted, nextUid, cancelled, cvars, dvars, hvars>>

\* the ids a cancel command is run with: ids of tweets created at any clock
\* reading of the model
KnownIDs == {<<"tweet", StartClock(tz) + k * 3600>> : k \in 0..MaxTicks}

\* the indices cancelScheduledTweet copies to updatedTweets
cancelKeeps(tweets, tweetID) == {i \in 1..Len(tweets) : tweets[i].ID # tweetID}

\* what cancelScheduledTweet returns before it reaches saveScheduledTweets:
\* an error, or "" when it goes on to save
cancelError(tweetID) ==
    LET l == loadScheduledTweets
    IN  IF l.err THEN "loading scheduled tweets"
        ELSE IF cancelKeeps(l.tweets, tweetID) = 1..Len(l.tweets) THEN "not found"
        ELSE ""

\* cancelScheduledTweet up to the found check
cancelScheduledTweet(tweetID) ==
    /\ CliStart
    /\ IF cancelError(tweetID) # ""
       THEN UNCHANGED <<cpc, ctweets, carg>>
       ELSE LET tweets  == loadScheduledTweets.tweets
                updated == SelectIdx(tweets, 1, cancelKeeps(tweets, tweetID))
            IN  /\ ctweets' = updated
                /\ carg' = [NoArg EXCEPT !.id = tweetID,
                                         !.removed = Uids(tweets) \ Uids(updated)]
                /\ cpc' = "cancel_save"
    /\ UNCHANGED <<tz, clock, doc, posted, nextUid, cancelled, dvars, hvars>>

\* cancelScheduledTweet's saveScheduledTweets(updatedTweets)
cancelSave(outcome) ==
    /\ cpc = "cancel_save"
    /\ saveScheduledTweets(ctweets, outcome)
    /\ cancelled' = IF outcome = "ok" THEN cancelled \cup carg.removed ELSE cancelled
    /\ cpc' = "idle" /\ ctweets' = <<>> /\ carg' = NoArg
    /\ UNCHANGED <<tz, clock, posted, nextUid, overlaps, dvars, hvars>>

\* the --image values of immediate posts
ImmediateImages == {"", "a.png"}

\* rootCmd.RunE without --schedule, with --image: uploadMedia; on error the
\* command returns it
ImmediateUpload(image, readable, resp) ==
    /\ image # ""
    /\ CliStart
    /\ LET r == uploadMedia(readable, resp)
       IN  IF r.err # ""
           THEN UNCHANGED <<cpc, carg>>
           ELSE /\ cpc' = "imm_post"
                /\ carg' = [NoArg EXCEPT !.media = appendMediaID(<<>>, r.id)]
    /\ UNCHANGED <<tz, clock, doc, posted, nextUid, cancelled, ctweets, dvars, hvars>>

\* rootCmd.RunE without --schedule: postTweet(client, cfg, text, mediaIDs),
\* straight away without --image, after the upload with it
ImmediatePost(image, resp) ==
    /\ \/ image = "" /\ CliStart
       \/ image # "" /\ cpc = "imm_post" /\ UNCHANGED overlaps
    /\ cpc' = "idle" /\ carg' = NoArg
    /\ UNCHANGED <<tz, clock, doc, posted, nextUid, cancelled, ctweets, dvars, hvars>>

----------------------------------------------------------------------------
(* runSchedulerDaemon, after credential validation.  The loop body is      *)
(* split at its reads, its HTTP calls and its write.                       *)

\* a due test that takes every loaded tweet as due
isDueAlways(tweet, now) == TRUE

\* tweet.ScheduleTime.Before(now) || tweet.ScheduleTime.Equal(now)
isDue(tweet, now) == Before(tweet.ScheduleTime, now) \/ Equal(tweet.ScheduleTime, now)

\* a range loop that leaves the remaining tweets unvisited
rangeLoopToEnd(tweets, i, remaining, now) ==
    [idx |-> Len(tweets) + 1, remaining |-> remaining]

\* the range loop from index i up to its next HTTP call: tweets that are not
\* due are appended to remainingTweets; the loop stops at the next due tweet
\* or at the end of tweets
RECURSIVE rangeLoop(_, _, _, _)
rangeLoop(tweets, i, remaining, now) ==
    IF i > Len(tweets) \/ isDue(tweets[i], now)
    THEN [idx |-> i, remaining |-> remaining]
    ELSE rangeLoop(tweets, i + 1, Append(remaining, tweets[i]), now)

\* a daemon that forgets the tweet whose attempt failed
retainDropped(remaining, tweet) == remaining

\* remainingTweets = append(remainingTweets, tweet) after a failed attempt
retain(remaining, tweet) == Append(remaining, tweet)

\* len(remainingTweets) != len(tweets)
mustSave(remaining, tweets) == Len(remaining) # Len(tweets)

\* a daemon that leaves its loop when a tick ends
DaemonReturn ==
    /\ dpc' = "returned" /\ dtweets' = <<>> /\ didx' = 0 /\ dremaining' = <<>>
    /\ dnow' = zeroTime /\ dmedia' = <<>> /\ dfailed' = {}

\* the daemon's locals between ticks (in time.Sleep, or about to load)
DaemonReset ==
    /\ dpc' = "sleep" /\ dtweets' = <<>> /\ didx' = 0 /\ dremaining' = <<>>
    /\ dnow' = zeroTime /\ dmedia' = <<>> /\ dfailed' = {}

\* the loop goes on from index i with `remaining` retained and `failed` failed:
\* to the next due tweet, else to the write, else (nothing to write) to the sleep
Continue(tweets, i, remaining, now, failed) ==
    LET r == rangeLoop(tweets, i, remaining, now)
    IN  IF r.idx <= Len(tweets)
        THEN /\ dpc' = "deliver" /\ dtweets' = tweets /\ didx' = r.idx
             /\ dremaining' = r.remaining /\ dnow' = now /\ dmedia' = <<>>
             /\ dfailed' = failed
        ELSE IF mustSave(r.remaining, tweets)
        THEN /\ dpc' = "save" /\ dtweets' = tweets /\ didx' = r.idx
             /\ dremaining' = r.remaining /\ dnow' = now /\ dmedia' = <<>>
             /\ dfailed' = failed
        ELSE DaemonReset

\* top of the loop: loadScheduledTweets; on error sleep and continue
DaemonLoad ==
    /\ TickStart
    /\ LET l == loadScheduledTweets
       IN  IF l.err THEN UNCHANGED dvars
           ELSE Continue(l.tweets, 1, <<>>, Now, {})
    /\ UNCHANGED <<tz, clock, doc, posted, nextUid, cancelled, cvars, hvars>>

\* a due tweet with an image: uploadMedia
DaemonUpload(readable, resp) ==
    /\ dpc = "deliver"
    /\ dtweets[didx].Image # ""
    /\ LET r == uploadMedia(readable, resp)
       IN  IF r.err # ""
           THEN Continue(dtweets, didx + 1, retain(dremaining, dtweets[didx]), dnow,
                         dfailed \cup {didx})
           ELSE /\ dmedia' = appendMediaID(dmedia, r.id)
                /\ dpc' = "post"
                /\ UNCHANGED <<dtweets, didx, dremaining, dnow, dfailed>>
    /\ UNCHANGED <<tz, clock, doc, posted, nextUid, cancelled, overlaps, cvars, hvars>>

\* a due tweet: postTweet
DaemonPost(resp) ==
    /\ \/ dpc = "post"
       \/ dpc = "deliver" /\ dtweets[didx].Image = ""
    /\ LET tweet == dtweets[didx]
           r     == postTweet(resp)
       IN  /\ posted' = IF Creates(resp)
                        THEN [posted EXCEPT ![tweet.uid] = Again(@)] ELSE posted
           /\ IF r.err # ""
              THEN Continue(dtweets, didx + 1, retain(dremaining, tweet), dnow,
                            dfailed \cup {didx})
              ELSE Continue(dtweets, didx + 1, dremaining, dnow, dfailed)
    /\ UNCHANGED <<tz, clock, doc, nextUid, cancelled, overlaps, cvars, hvars>>

\* after the loop: saveScheduledTweets(remainingTweets), then time.Sleep
DaemonSave(outcome) ==
    /\ dpc = "save"
    /\ saveScheduledTweets(dremaining, outcome)
    /\ DaemonReset
    /\ UNCHANGED <<tz, clock, posted, nextUid, cancelled, overlaps, cvars, hvars>>

\* the daemon process is killed and started again: its locals are lost
DaemonCrash ==
    /\ dpc # "sleep"
    /\ DaemonReset
    /\ UNCHANGED <<tz, clock, doc, posted, nextUid, cancelled, overlaps, cvars, hvars>>

----------------------------------------------------------------------------
Next ==
    \/ Tick
    \/ \E c \in CreateInputs : handleScheduledTweet(c[1], c[2])
    \/ \E o \in WriteOutcomes : saveScheduledTweet(o)
    \/ listScheduledTweets
    \/ \E id \in KnownIDs : cancelScheduledTweet(id)
    \/ \E o \in WriteOutcomes : cancelSave(o)
    \/ DaemonLoad
    \/ \E u \in DaemonUploads : DaemonUpload(u[1], u[2])
    \/ \E resp \in DaemonResponses : DaemonPost(resp)
    \/ \E o \in WriteOutcomes : DaemonSave(o)
    \/ DaemonCrash

Spec == Init /\ [][Next]_vars

----------------------------------------------------------------------------
(* The system when the daemon keeps ticking and is not killed, store       *)
(* writes succeed, time passes, commands run to their end, and an upload   *)
(* or a post that is attempted again and again eventually succeeds.        *)

PostOk   == Resp(FALSE, 201, "json")
UploadOk == <<TRUE, Resp(FALSE, 200, "media_id")>>

LiveNext ==
    \/ Tick
    \/ \E c \in CreateInputs : handleScheduledTweet(c[1], c[2])
    \/ saveScheduledTweet("ok")
    \/ listScheduledTweets
    \/ \E id \in KnownIDs : cancelScheduledTweet(id)
    \/ cancelSave("ok")
    \/ DaemonLoad
    \/ \E u \in DaemonUploads : DaemonUpload(u[1], u[2])
    \/ \E resp \in DaemonResponses : DaemonPost(resp)
    \/ DaemonSave("ok")

LiveSpec ==
    /\ Init /\ [][LiveNext]_vars
    /\ WF_vars(Tick)
    /\ WF_vars(saveScheduledTweet("ok")) /\ WF_vars(cancelSave("ok"))
    /\ WF_vars(DaemonLoad) /\ WF_vars(DaemonSave("ok"))
    /\ WF_vars(\E u \in DaemonUploads : DaemonUpload(u[1], u[2]))
    /\ WF_vars(\E resp \in DaemonResponses : DaemonPost(resp))
    /\ SF_vars(DaemonUpload(UploadOk[1], UploadOk[2]))
    /\ SF_vars(DaemonPost(PostOk))

----------------------------------------------------------------------------
(* The scheduler together with immediate posts (x-cli --text ... without   *)
(* --schedule), in one zone.  An immediate post shares nothing with the    *)
(* store or the daemon.                                                    *)

DeliverNext ==
    \/ Tick
    \/ \E c \in CreateInputs : handleScheduledTweet(c[1], c[2])
    \/ \E o \in WriteOutcomes : saveScheduledTweet(o)
    \/ listScheduledTweets
    \/ \E id \in KnownIDs : cancelScheduledTweet(id)
    \/ \E o \in WriteOutcomes : cancelSave(o)
    \/ \E u \in DaemonUploads : ImmediateUpload("a.png", u[1], u[2])
    \/ \E image \in ImmediateImages, resp \in DaemonResponses : ImmediatePost(image, resp)
    \/ DaemonLoad
    \/ \E u \in DaemonUploads : DaemonUpload(u[1], u[2])
    \/ \E resp \in DaemonResponses : DaemonPost(resp)
    \/ \E o \in WriteOutcomes : DaemonSave(o)
    \/ DaemonCrash

DeliverSpec == InitIn({0}) /\ [][DeliverNext]_vars

----------------------------------------------------------------------------
(* Harness for parseScheduleTime: the parser applied to --schedule strings *)
(* with the clock fixed at 2024-06-01 10:00 local, in several zones.       *)

ParseZones == {-18000, 0, 3600}

ParseInputs ==
    {Sched("hm", 0, 0, 0, h, mi, 0) : h \in {0, 10, 18, 23, 24}, mi \in {0, 59}}
    \cup {Sched("mdhm", 0, mo, d, h, mi, 0) :
            mo \in {2, 6, 12}, d \in {1, 29, 31}, h \in {0, 18, 23}, mi \in {0, 59}}
    \cup {Sched("ymdhm", y, mo, d, h, mi, 0) :
            y \in {2023, 2024}, mo \in {1, 2, 6}, d \in {1, 29}, h \in {0, 18}, mi \in {0, 59}}
    \cup {Sched("ymdhms", 2024, mo, d, h, 0, sec) :
            mo \in {1, 6}, d \in {1, 31}, h \in {0, 18}, sec \in {0, 5}}
    \cup {Sched("bad", 0, 0, 0, 0, 0, 0)}

ParseInit == InitIn(ParseZones)

\* parseScheduleTime(scheduleAt) is called
ParseCall(scheduleAt) ==
    /\ pin' = scheduleAt
    /\ pout' = parseScheduleTime(scheduleAt, Now)
    /\ UNCHANGED <<tz, clock, doc, posted, nextUid, cancelled, overlaps, dvars, cvars,
                   http, sig>>

ParseNext == \E scheduleAt \in ParseInputs : ParseCall(scheduleAt)

ParseSpec == ParseInit /\ [][ParseNext]_vars

----------------------------------------------------------------------------
(* Harness for the API client: postTweet and uploadMedia applied to HTTP   *)
(* exchanges.  101 is the one 1xx status net/http hands to its caller.     *)

ApiStatuses == {101, 200, 201, 204, 299, 300, 301, 400, 401, 403, 404, 429, 500, 503}
ApiBodies   == {"media_id", "error", "errors", "json", "text"}

ApiResponses ==
    {Resp(FALSE, st, b) : st \in ApiStatuses, b \in ApiBodies} \cup {Resp(TRUE, 0, "")}

Exchange(op, readable, resp, r) ==
    [op |-> op, resp |-> resp, readable |-> readable, err |-> r.err,
     requests |-> r.requests]

\* postTweet(client, cfg, text, mediaIDs) is called and the API answers resp
CallPostTweet(resp) ==
    /\ http' = Exchange("postTweet", TRUE, resp, postTweet(resp))
    /\ UNCHANGED <<tz, clock, doc, posted, nextUid, cancelled, overlaps, dvars, cvars,
                   pin, pout, sig>>

\* uploadMedia(client, cfg, path) is called and the API answers resp
CallUploadMedia(readable, resp) ==
    /\ http' = Exchange("uploadMedia", readable, resp, uploadMedia(readable, resp))
    /\ UNCHANGED <<tz, clock, doc, posted, nextUid, cancelled, overlaps, dvars, cvars,
                   pin, pout, sig>>

ApiNext ==
    \/ \E resp \in ApiResponses : CallPostTweet(resp)
    \/ \E readable \in BOOLEAN, resp \in ApiResponses : CallUploadMedia(readable, resp)

ApiSpec == Init /\ [][ApiNext]_vars

----------------------------------------------------------------------------
(* OAuth 1.0a parameter string.  A string is the sequence of its bytes.    *)

\* the bytes url.QueryEscape leaves as they are: letters, digits, - . _ ~
unreserved == (48..57) \cup (65..90) \cup (97..122) \cup {45, 46, 95, 126}

\* an upper-case hexadecimal digit as a byte
hexDigit(d) == IF d < 10 THEN 48 + d ELSE 55 + d

\* percentEncode of one byte: itself, or %XX (QueryEscape's + for a space is
\* replaced by %20, which is the %XX of a space)
escapeByte(c) ==
    IF c \in unreserved THEN <<c>> ELSE <<37, hexDigit(c \div 16), hexDigit(c % 16)>>

\* strings.ReplaceAll(url.QueryEscape(s), "+", "%20")
RECURSIVE percentEncode(_)
percentEncode(s) ==
    IF s = <<>> THEN <<>> ELSE escapeByte(Head(s)) \o percentEncode(Tail(s))

\* a < b as Go compares strings: byte by byte
RECURSIVE stringLess(_, _)
stringLess(a, b) ==
    IF b = <<>> THEN FALSE
    ELSE IF a = <<>> THEN TRUE
    ELSE IF Head(a) # Head(b) THEN Head(a) < Head(b)
    ELSE stringLess(Tail(a), Tail(b))

\* sort.Strings on a slice
RECURSIVE sortStrings(_)
sortStrings(ss) ==
    IF ss = <<>> THEN <<>>
    ELSE LET rest == sortStrings(Tail(ss))
             x    == Head(ss)
             k    == Cardinality({i \in 1..Len(rest) : stringLess(rest[i], x)})
         IN  SubSeq(rest, 1, k) \o <<x>> \o SubSeq(rest, k + 1, Len(rest))

\* a set of strings as a slice, in some order (iteration over a map)
RECURSIVE mapKeys(_)
mapKeys(S) ==
    IF S = {} THEN <<>> ELSE LET k == CHOOSE x \in S : TRUE IN <<k>> \o mapKeys(S \ {k})

\* url.Values built by Add over the parameters in turn: for each key, its
\* values in the order they were added
signingValues(params) ==
    [k \in {params[i][1] : i \in 1..Len(params)} |->
        LET at == {i \in 1..Len(params) : params[i][1] = k}
        IN  [j \in 1..Cardinality(at) |->
                params[CHOOSE i \in at : Cardinality({h \in at : h <= i}) = j][2]]]

\* the inner loop of encodeValues for key k: percentEncode(k) = percentEncode(v)
\* for each v of the sorted vs
encodeKey(k, vs) == [j \in 1..Len(vs) |-> <<percentEncode(k), percentEncode(vs[j])>>]

\* the outer loop of encodeValues over the sorted keys from index i
RECURSIVE encodePairs(_, _, _)
encodePairs(values, keys, i) ==
    IF i > Len(keys) THEN <<>>
    ELSE encodeKey(keys[i], sortStrings(values[keys[i]]))
            \o encodePairs(values, keys, i + 1)

\* the builder: key=value joined by &
RECURSIVE joinPairs(_)
joinPairs(pairs) ==
    IF pairs = <<>> THEN <<>>
    ELSE pairs[1][1] \o <<61>> \o pairs[1][2]
            \o (IF Len(pairs) > 1 THEN <<38>> \o joinPairs(Tail(pairs)) ELSE <<>>)

\* encodeValues(values): the pairs it writes, and the string
encodeValues(values) ==
    LET keys  == sortStrings(mapKeys(DOMAIN values))
        pairs == IF DOMAIN values = {} THEN <<>> ELSE encodePairs(values, keys, 1)
    IN  [pairs |-> pairs, str |-> joinPairs(pairs)]

----------------------------------------------------------------------------
(* Harness for the parameter string: encodeValues applied to the signing   *)
(* values built from up to MaxParams parameters.                           *)

MaxParams == 2

\* parameter names and values: a, a-, a/  and  b, -, /, b c
SigKeys == {<<97>>, <<97, 45>>, <<97, 47>>}
SigVals == {<<98>>, <<45>>, <<47>>, <<98, 32, 99>>}

SigInputs ==
    UNION {[1..n -> SigKeys \X SigVals] : n \in 0..MaxParams}

\* buildOAuth1Header collects params into signingValues and calls encodeValues
CallEncodeValues(params) ==
    /\ LET r == encodeValues(signingValues(params))
       IN  sig' = [called |-> TRUE, in |-> params, pairs |-> r.pairs, str |-> r.str]
    /\ UNCHANGED <<tz, clock, doc, posted, nextUid, cancelled, overlaps, dvars, cvars,
                   pin, pout, http>>

SigNext == \E params \in SigInputs : CallEncodeValues(params)

SigSpec == Init /\ [][SigNext]_vars

----------------------------------------------------------------------------
(* Claims.                                                                 *)

\* the store as a sequence: the tweets of a readable document
StoreTweets == IF doc.st = "ok" THEN doc.tweets ELSE <<>>

\* due time <= now
DueAt(tweet, now) == tweet.ScheduleTime.sec <= now.sec

\* of the loaded tweets, those not due at `now` and those whose attempt
\* failed, in their order
Kept(tweets, now, failed) ==
    SelectIdx(tweets, 1, {i \in 1..Len(tweets) : ~DueAt(tweets[i], now) \/ i \in failed})

\* the document still holds what the running tick loaded
StoreAsLoaded == ~loadScheduledTweets.err /\ loadScheduledTweets.tweets = dtweets

\* C1: every post's tweet is created at most once, whatever ticks, failed
\* store writes and daemon restarts occur.
C1_AtMostOnce == \A u \in UIDs : posted[u] # "again"

StoreCommandStarts ==
    \/ \E c \in CreateInputs : handleError(c[1]) = "" /\ handleScheduledTweet(c[1], c[2])
    \/ listScheduledTweets
    \/ \E id \in KnownIDs : cancelScheduledTweet(id)

\* C3: on a document that cannot be read or parsed, create, list and cancel
\* fail with an error and leave the document as it was; an absent document
\* loads as the empty sequence without error.
C3_CorruptDocumentIsFatal ==
    /\ [][(doc.st = "corrupt" /\ StoreCommandStarts) => (cpc' = "idle" /\ doc' = doc)]_vars
    /\ [](doc.st = "corrupt"
            => listError # "" /\ \A id \in KnownIDs : cancelError(id) # "")
    /\ [](doc.st = "absent"
            => ~loadScheduledTweets.err /\ loadScheduledTweets.tweets = <<>>)

\* C4: no two entries of the store have the same identifier.
C4_UniqueIdentifiers ==
    \A i, j \in 1..Len(StoreTweets) :
        i # j => StoreTweets[i].ID # StoreTweets[j].ID

\* C5: cancel of an id that is not in the store fails with "not found" and
\* writes nothing; cancel of an id that is in the store writes the loaded
\* sequence with exactly one entry removed, the others in order.
C5_CancelRemovesExactlyOne ==
    [][ /\ \A id \in KnownIDs :
             (cancelScheduledTweet(id) /\ ~loadScheduledTweets.err)
             => LET tweets == loadScheduledTweets.tweets
                    hits   == {i \in 1..Len(tweets) : tweets[i].ID = id}
                IN  IF hits = {}
                    THEN cancelError(id) = "not found" /\ cpc' = "idle" /\ doc' = doc
                    ELSE /\ cpc' = "cancel_save"
                         /\ \E i \in hits :
                              ctweets' = SelectIdx(tweets, 1, (1..Len(tweets)) \ {i})
        /\ cancelSave("ok") => doc' = [st |-> "ok", tweets |-> ctweets]
      ]_vars

\* C6: a create whose due time is earlier than the clock returns the
\* validation error without reaching saveScheduledTweet: the document is
\* neither loaded nor written and no tweet is built.
C6_PastDueRejectedBeforeStore ==
    [][ \A c \in CreateInputs :
          ( /\ handleScheduledTweet(c[1], c[2])
            /\ ~parseScheduleTime(c[1], Now).err
            /\ parseScheduleTime(c[1], Now).t.sec < clock )
          => /\ handleError(c[1]) = "schedule time must be in the future"
             /\ doc' = doc /\ cpc' = "idle" /\ ctweets' = ctweets
             /\ nextUid' = nextUid
      ]_vars

\* C6 witness: the store holds a post, no command is running, and a create
\* with a due time before the clock is run.
C6_Witness ==
    /\ cpc = "idle" /\ doc.st = "ok" /\ Len(doc.tweets) > 0
    /\ \E c \in CreateInputs :
         /\ ~parseScheduleTime(c[1], Now).err
         /\ parseScheduleTime(c[1], Now).t.sec < clock
         /\ handleError(c[1]) = "schedule time must be in the future"
         /\ ENABLED handleScheduledTweet(c[1], c[2])

\* C7: every post in the store is due strictly after the clock reading of
\* its creation (the reading its identifier is made of).
C7_DueStrictlyAfterCreation ==
    \A i \in 1..Len(StoreTweets) :
        StoreTweets[i].ScheduleTime.sec > StoreTweets[i].ID[2]

\* the local wall-clock moment a --schedule string denotes at `now`
Denoted(in, now) ==
    IF in.fmt = "hm"
    THEN Date(DateOf(now).y, DateOf(now).mo, DateOf(now).d, in.h, in.mi, 0, tz)
    ELSE IF in.fmt = "mdhm"
    THEN Date(DateOf(now).y, in.mo, in.d, in.h, in.mi, 0, tz)
    ELSE Date(in.y, in.mo, in.d, in.h, in.mi, in.s, tz)

\* C8: for every accepted format parseScheduleTime returns the local
\* wall-clock moment written in the string: today's date for HH:MM, the
\* current year for MM-DD HH:MM, the date given for YYYY-MM-DD HH:MM[:SS].
C8_ParsedInLocalZone ==
    (pin # NoInput /\ ~pout.err) => pout.t = Denoted(pin, Now)

\* post u is in the store
InStore(u) == u \in Uids(StoreTweets)

\* post u is in the store and its due time has arrived
DueInStore(u) ==
    \E i \in 1..Len(StoreTweets) : StoreTweets[i].uid = u /\ DueAt(StoreTweets[i], Now)

\* C9: a post that is in the store with its due time arrived is eventually
\* delivered and absent from the store, unless it is cancelled.
C9_DuePostEventuallyDelivered ==
    \A u \in UIDs :
        DueInStore(u) ~> ((posted[u] # "never" /\ ~InStore(u)) \/ u \in cancelled)

\* C10: a response with a status outside 200-299 makes postTweet and
\* uploadMedia return an error, and the call issued exactly one request.
C10_Non2xxIsError ==
    (http.op # "" /\ http.readable /\ ~http.resp.neterr
        /\ http.resp.status \notin 200..299)
    => (http.err # "" /\ http.requests = 1)

\* the daemon is inside a tick (between its load and its sleep)
InTick == dpc # "sleep"

\* the loaded posts at indices below i that the tick has retained as not due
SkippedBelow(i) == {j \in 1..Len(dtweets) : j < i /\ ~DueAt(dtweets[j], dnow)}

\* C11: in a tick a loaded post is attempted if and only if its due time is
\* at or before the clock reading taken once at the start of the tick; a post
\* due later than that reading is never posted in the tick and is retained.
C11_AttemptedIffDue ==
    /\ [](InTick =>
            /\ dpc \in {"deliver", "post"} => DueAt(dtweets[didx], dnow)
            /\ \A j \in SkippedBelow(didx) : dtweets[j].uid \in Uids(dremaining)
            /\ \A j \in 1..Len(dtweets) :
                 (j < didx /\ DueAt(dtweets[j], dnow) /\ j \notin dfailed)
                 => dtweets[j].uid \notin Uids(dremaining)
            /\ \A j \in dfailed : j < didx /\ DueAt(dtweets[j], dnow)
            /\ dpc = "save" => didx = Len(dtweets) + 1)
    /\ [][(InTick /\ InTick') => (dnow' = dnow /\ dtweets' = dtweets)]_vars
    /\ [][\A u \in UIDs :
            posted'[u] # posted[u]
            => (InTick /\ dtweets[didx].uid = u /\ DueAt(dtweets[didx], dnow))]_vars
    /\ [][(DaemonLoad /\ ~loadScheduledTweets.err /\ InTick')
            => (dnow' = Now /\ dtweets' = loadScheduledTweets.tweets)]_vars

\* C11 witness: the clock has moved on during a tick, so that a post the tick
\* retained as not due is due by the current clock, while a post that was due
\* at the tick's reading has been delivered.
C11_Witness ==
    /\ dpc = "save"
    /\ \E j \in SkippedBelow(didx) : DueAt(dtweets[j], Now)
    /\ \E j \in 1..Len(dtweets) :
         DueAt(dtweets[j], dnow) /\ posted[dtweets[j].uid] = "once"

\* the due posts of the running tick whose attempt is over: failed and
\* retained, or delivered
Attempted == {j \in 1..Len(dtweets) :
                 DueAt(dtweets[j], dnow)
                 /\ (j \in dfailed \/ posted[dtweets[j].uid] # "never")}

\* C12: within a tick the due posts are attempted one at a time in store
\* order (every request for a post is over before a request for a later post
\* is issued), and the store is written only after all due posts have been
\* attempted.
C12_OneAtATimeInStoreOrder ==
    /\ [][(InTick /\ InTick' /\ dvars' # dvars) =>
            /\ didx' >= didx
            /\ didx' = didx => (dpc = "deliver" /\ dpc' = "post")
            /\ didx' > didx => (didx \in Attempted' /\ dpc' # "post")]_vars
    /\ [](InTick => \A j \in 1..Len(dtweets) :
                       (j < didx /\ DueAt(dtweets[j], dnow)) => j \in Attempted)
    /\ [][\A o \in WriteOutcomes :
            DaemonSave(o)
            => \A j \in 1..Len(dtweets) : DueAt(dtweets[j], dnow) => j \in Attempted]_vars
    /\ [][(InTick /\ doc' # doc /\ cpc' = cpc) => \E o \in WriteOutcomes : DaemonSave(o)]_vars

\* C12 witness: the first of two due posts has been delivered and the tick
\* stands at the second, the store not yet written.
C12_Witness ==
    /\ dpc = "deliver" /\ didx = 2 /\ Len(dtweets) = 2
    /\ DueAt(dtweets[1], dnow) /\ DueAt(dtweets[2], dnow)
    /\ posted[dtweets[1].uid] = "once" /\ StoreAsLoaded

\* the positions of runSchedulerDaemon inside its for loop
LoopPositions == {"sleep", "deliver", "post", "save"}

\* the daemon's next step from its position is possible
DaemonCanStep ==
    /\ (dpc = "sleep" /\ cpc = "idle") => ENABLED DaemonLoad
    /\ dpc = "deliver"
         => ENABLED (\/ \E u \in DaemonUploads : DaemonUpload(u[1], u[2])
                     \/ \E resp \in DaemonResponses : DaemonPost(resp))
    /\ dpc = "post" => ENABLED (\E resp \in DaemonResponses : DaemonPost(resp))
    /\ dpc = "save" => ENABLED (\E o \in WriteOutcomes : DaemonSave(o))

\* C13: past credential validation runSchedulerDaemon never returns: a store
\* load error (the tick is skipped: no delivery, no write), a failed upload,
\* a failed post and a failed store write each lead on in the loop, to the
\* sleep and the next tick.
C13_DaemonNeverReturns ==
    /\ [](dpc \in LoopPositions /\ DaemonCanStep)
    /\ [][(DaemonLoad /\ loadScheduledTweets.err)
            => (dpc' = "sleep" /\ doc' = doc /\ posted' = posted)]_vars
    /\ [][\A u \in DaemonUploads :
            (DaemonUpload(u[1], u[2]) /\ uploadMedia(u[1], u[2]).err # "")
            => (dpc' \in {"deliver", "save", "sleep"} /\ doc' = doc)]_vars
    /\ [][\A resp \in DaemonResponses :
            (DaemonPost(resp) /\ postTweet(resp).err # "")
            => (dpc' \in {"deliver", "save", "sleep"} /\ doc' = doc)]_vars
    /\ [][\A o \in WriteOutcomes : DaemonSave(o) => dpc' = "sleep"]_vars

\* C13 witness: a store write has failed and left the document unreadable, a
\* post has been delivered, and the daemon is at its sleep with the next tick
\* (which will fail to load) about to start.
C13_Witness ==
    /\ dpc = "sleep" /\ cpc = "idle" /\ doc.st = "corrupt"
    /\ \E u \in UIDs : posted[u] = "once"
    /\ ENABLED DaemonLoad

\* pair p comes no later than pair q by key, then by value
PairLeq(p, q) ==
    \/ stringLess(p[1], q[1])
    \/ p[1] = q[1] /\ ~stringLess(q[2], p[2])

\* C14: the parameter string lists the percent-encoded key=value pairs of
\* all the parameters, sorted by percent-encoded key and, for equal keys, by
\* percent-encoded value, whatever characters the keys and values hold.
C14_SortedByEncodedKeyThenValue ==
    sig.called =>
        /\ Len(sig.pairs) = Len(sig.in)
        /\ \A i \in 1..Len(sig.in) :
             Cardinality({j \in 1..Len(sig.pairs) :
                            sig.pairs[j] = <<percentEncode(sig.in[i][1]),
                                             percentEncode(sig.in[i][2])>>})
             = Cardinality({j \in 1..Len(sig.in) : sig.in[j] = sig.in[i]})
        /\ \A i, j \in 1..Len(sig.pairs) : i < j => PairLeq(sig.pairs[i], sig.pairs[j])
        /\ sig.str = joinPairs(sig.pairs)

\* the posts that a create has added to the store since the running tick
\* loaded it
CreatedSinceLoad == {u \in Uids(StoreTweets) \ Uids(dtweets) : u \notin cancelled}

\* C15: a post that a create command stored while a tick was between its
\* load and its save is still in the store after the tick's save.
C15_CreateSurvivesTick ==
    [][DaemonSave("ok") => \A u \in CreatedSinceLoad : u \in Uids(StoreTweets')]_vars

\* C16: once a cancel has returned success, the cancelled post is never
\* posted afterwards and is never in the store again, however the cancel
\* interleaves with a daemon tick.
C16_CancelIsFinal ==
    /\ [][\A u \in cancelled : posted'[u] = posted[u]]_vars
    /\ [](\A u \in cancelled : ~InStore(u))

\* the media ids of a tweet-create request for a post that has an image are
\* exactly the one id `id`
CarriesOnly(payload, id) ==
    Len(payload.Media) = 1 /\ payload.Media[1].MediaIDs = <<id>> /\ id # ""

\* the id uploadMedia returns on the daemon's successful upload
UploadedId == uploadMedia(UploadOk[1], UploadOk[2]).id

\* C17: for a post with an image, in immediate mode and in the daemon, the
\* tweet-create request is issued only after uploadMedia has succeeded in the
\* same attempt and carries the media id it returned; when the upload fails
\* no tweet-create request is issued for the attempt: the daemon retains the
\* post and the immediate command returns the error.
C17_TweetOnlyAfterUpload ==
    /\ [][\A u \in DaemonUploads :
            DaemonUpload(u[1], u[2])
            => IF uploadMedia(u[1], u[2]).err = ""
               THEN /\ dpc' = "post" /\ didx' = didx /\ dtweets' = dtweets
                    /\ dmedia' = <<uploadMedia(u[1], u[2]).id>>
               ELSE /\ posted' = posted /\ doc' = doc
                    /\ InTick' => /\ dpc' # "post" /\ didx' > didx
                                  /\ didx \in dfailed'
                                  /\ dtweets[didx].uid \in Uids(dremaining')]_vars
    /\ [][dpc' = "post"
            => \/ dpc = "post" /\ dvars' = dvars
               \/ \E u \in DaemonUploads :
                    DaemonUpload(u[1], u[2]) /\ uploadMedia(u[1], u[2]).err = ""]_vars
    /\ [][\A resp \in DaemonResponses :
            (DaemonPost(resp) /\ dtweets[didx].Image # "")
            => /\ dpc = "post"
               /\ CarriesOnly(tweetPayload(dtweets[didx].Text, dmedia), UploadedId)]_vars
    /\ [][\A u \in DaemonUploads :
            ImmediateUpload("a.png", u[1], u[2])
            => IF uploadMedia(u[1], u[2]).err = ""
               THEN cpc' = "imm_post" /\ carg'.media = <<uploadMedia(u[1], u[2]).id>>
               ELSE cpc' = "idle"]_vars
    /\ [][cpc' = "imm_post"
            => \/ cpc = "imm_post" /\ cvars' = cvars
               \/ \E u \in DaemonUploads :
                    ImmediateUpload("a.png", u[1], u[2])
                    /\ uploadMedia(u[1], u[2]).err = ""]_vars
    /\ [][\A resp \in DaemonResponses :
            ImmediatePost("a.png", resp)
            => /\ cpc = "imm_post"
               /\ CarriesOnly(tweetPayload("t", carg.media), UploadedId)]_vars

\* C17 witness: the daemon and an immediate post both stand between a
\* successful upload and their tweet-create request, the daemon after the
\* upload of an earlier post of the tick had failed.
C17_Witness ==
    /\ dpc = "post" /\ dmedia = <<UploadedId>> /\ dfailed # {}
    /\ dtweets[1].Image # ""
    /\ cpc = "imm_post" /\ carg.media = <<UploadedId>>

====
